---- MODULE Spec2Model ----
(***************************************************************************)
(* NanoVNA driver (pymeasure/instruments/nanovna/nanovna.py).              *)
(*                                                                         *)
(* Text is a sequence of one-character strings, so that str.replace,       *)
(* str.split and str.join act on characters exactly as Python does.        *)
(***************************************************************************)
EXTENDS Integers, Sequences, FiniteSets, TLC

VARIABLES
    rx,       \* bytes the device has sent that no read has consumed yet
    tx,       \* bytes of the last write on the channel
    nwrites,  \* number of writes on the channel so far
    raw,      \* bytes the last _read_bytes obtained from the channel
    echo,     \* read[0] of the last _read_echo: the segment dropped as echo
    ret,      \* outcome of the last operation: [kind, val]
    op,       \* the last operation called: [name, arg]
    clean,    \* rx was empty when the last operation started
    busy,     \* the last write happened while rx still held unread bytes
    calIdx,   \* position inside get_cals: 0 outside, k = k-th ask is next
    cals,     \* values decoded so far inside get_cals
    calLog,   \* writes and reads of the current get_cals call, in order
    dev       \* what the device (or the test input) composed last

vars == <<rx, tx, nwrites, raw, echo, ret, op, clean, busy,
          calIdx, cals, calLog, dev>>

----------------------------------------------------------------------------
(* Bounds *)

MaxLines == 3      \* reply lines of a well-formed frame
MaxChunks == 5     \* chunks of an arbitrary raw frame
MaxWrites == 2     \* an operation starts only after fewer writes than this

----------------------------------------------------------------------------
(* Characters and the protocol's literals *)

CR == "\r"
LF == "\n"
SP == " "
COMMA == ","

echo_termination == <<CR, LF>>
PromptMarker == <<"c", "h", ">", SP>>
read_termination == <<CR, LF, "c", "h", ">", SP>>
write_termination == <<CR>>

----------------------------------------------------------------------------
(* Python str and list primitives *)

\* p occurs in s at index i
MatchAt(s, p, i) ==
    /\ i + Len(p) - 1 <= Len(s)
    /\ \A j \in 1..Len(p) : s[i + j - 1] = p[j]

StartsWith(s, p) == MatchAt(s, p, 1)

\* s.find(p, i - 1) + 1: the first index >= i where p occurs, 0 when none
RECURSIVE FindFrom(_, _, _)
FindFrom(s, p, i) ==
    IF i + Len(p) - 1 > Len(s) THEN 0
    ELSE IF MatchAt(s, p, i) THEN i
    ELSE FindFrom(s, p, i + 1)

\* p in s
Contains(s, p) == FindFrom(s, p, 1) # 0

\* s.replace(old, ""): non-overlapping occurrences, leftmost first, one pass
RECURSIVE RemoveFrom(_, _, _, _)
RemoveFrom(s, old, i, acc) ==
    IF i > Len(s) THEN acc
    ELSE IF MatchAt(s, old, i) THEN RemoveFrom(s, old, i + Len(old), acc)
    ELSE RemoveFrom(s, old, i + 1, Append(acc, s[i]))

StrRemove(s, old) == RemoveFrom(s, old, 1, <<>>)

\* s.replace(a, b) for single characters a, b
StrReplaceChar(s, a, b) ==
    [i \in 1..Len(s) |-> IF s[i] = a THEN b ELSE s[i]]

\* s.split(sep) with an explicit separator: "".split(sep) is [""]
RECURSIVE SplitFrom(_, _, _, _)
SplitFrom(s, sep, i, cur) ==
    IF i > Len(s) THEN <<cur>>
    ELSE IF MatchAt(s, sep, i)
         THEN <<cur>> \o SplitFrom(s, sep, i + Len(sep), <<>>)
         ELSE SplitFrom(s, sep, i + 1, Append(cur, s[i]))

StrSplit(s, sep) == SplitFrom(s, sep, 1, <<>>)

\* sep.join(parts)
RECURSIVE StrJoin(_, _)
StrJoin(parts, sep) ==
    IF parts = <<>> THEN <<>>
    ELSE IF Len(parts) = 1 THEN parts[1]
    ELSE parts[1] \o sep \o StrJoin(Tail(parts), sep)

\* lst[1:-1]
SliceInterior_keepLast(lst) ==
    IF Len(lst) < 2 THEN <<>> ELSE SubSeq(lst, 2, Len(lst))

SliceInterior(lst) ==
    IF Len(lst) < 3 THEN <<>> ELSE SubSeq(lst, 2, Len(lst) - 1)

----------------------------------------------------------------------------
(* SerialAdapterWithEcho._read_echo, lines 44-48: the scrubbing of the      *)
(* decoded text                                                            *)

StripPrompt_firstOnly(text) ==
    LET i == FindFrom(text, PromptMarker, 1)
    IN IF i = 0 THEN text
       ELSE SubSeq(text, 1, i - 1)
              \o SubSeq(text, i + Len(PromptMarker), Len(text))

StripPrompt(text) == StrRemove(text, PromptMarker)

Segments(text) == StrSplit(StripPrompt(text), echo_termination)

ScrubEcho(text) == StrJoin(SliceInterior(Segments(text)), <<COMMA>>)

----------------------------------------------------------------------------
(* numpy: array(tokens, dtype=float) and the broadcasting of + *)

Digits == <<"0", "1", "2", "3", "4", "5", "6", "7", "8", "9">>

IsDigit(c) == \E d \in 1..10 : Digits[d] = c

DigitVal(c) == (CHOOSE d \in 1..10 : Digits[d] = c) - 1

IsSpace(c) == c \in {SP, CR, LF}

\* float() ignores surrounding whitespace
RECURSIVE LStrip(_)
LStrip(s) ==
    IF s # <<>> /\ IsSpace(Head(s)) THEN LStrip(Tail(s)) ELSE s

RECURSIVE RStrip(_)
RStrip(s) ==
    IF s # <<>> /\ IsSpace(s[Len(s)]) THEN RStrip(SubSeq(s, 1, Len(s) - 1)) ELSE s

Unsigned(s) ==
    LET t == RStrip(LStrip(s))
    IN IF t # <<>> /\ t[1] \in {"-", "+"} THEN Tail(t) ELSE t

\* float(token) succeeds; over the model's characters only signed decimal
\* integers are numeric ('.', 'e', "inf", "nan" are not in any reply modelled)
IsNumeric(s) ==
    /\ Unsigned(s) # <<>>
    /\ \A i \in 1..Len(Unsigned(s)) : IsDigit(Unsigned(s)[i])

RECURSIVE NatVal(_)
NatVal(ds) ==
    IF ds = <<>> THEN 0
    ELSE 10 * NatVal(SubSeq(ds, 1, Len(ds) - 1)) + DigitVal(ds[Len(ds)])

FloatVal(s) ==
    LET t == RStrip(LStrip(s))
    IN IF t[1] = "-" THEN 0 - NatVal(Unsigned(s)) ELSE NatVal(Unsigned(s))

\* array(tokens, dtype=float): ValueError when a token is not numeric
FloatArray(tokens) ==
    IF \A i \in 1..Len(tokens) : IsNumeric(tokens[i])
    THEN [kind |-> "ok", val |-> [i \in 1..Len(tokens) |-> FloatVal(tokens[i])]]
    ELSE [kind |-> "ValueError", val |-> <<>>]

\* a[::2] and a[1::2]
EvenSlice(a) == [i \in 1..((Len(a) + 1) \div 2) |-> a[2 * i - 1]]
OddSlice(a) == [i \in 1..(Len(a) \div 2) |-> a[2 * i]]

\* re + im * 1j for one-dimensional arrays: shapes must be equal or one of
\* them 1 (numpy broadcasting), otherwise ValueError. A complex number is
\* the pair <<real, imaginary>>.
BroadcastComplex(re, im) ==
    IF Len(re) = Len(im)
    THEN [kind |-> "ok", val |-> [i \in 1..Len(re) |-> <<re[i], im[i]>>]]
    ELSE IF Len(im) = 1
    THEN [kind |-> "ok", val |-> [i \in 1..Len(re) |-> <<re[i], im[1]>>]]
    ELSE IF Len(re) = 1
    THEN [kind |-> "ok", val |-> [i \in 1..Len(im) |-> <<re[1], im[i]>>]]
    ELSE [kind |-> "ValueError", val |-> <<>>]

----------------------------------------------------------------------------
(* NanoVNA._process_frequencies and NanoVNA._process_data *)

DataTokens(data) == StrSplit(StrReplaceChar(data, SP, COMMA), <<COMMA>>)

_process_frequencies(freqs) == FloatArray(StrSplit(freqs, <<COMMA>>))

_process_data(data) ==
    LET arr == FloatArray(DataTokens(data))
    IN IF arr.kind # "ok" THEN arr
       ELSE BroadcastComplex(EvenSlice(arr.val), OddSlice(arr.val))

----------------------------------------------------------------------------
(* Command strings *)

\* '%d' % n and '%i' % n
RECURSIVE FormatNat(_)
FormatNat(n) ==
    IF n < 10 THEN <<Digits[n + 1]>>
    ELSE FormatNat(n \div 10) \o <<Digits[(n % 10) + 1]>>

FormatInt(n) == IF n < 0 THEN <<"-">> \o FormatNat(0 - n) ELSE FormatNat(n)

CmdHelp == <<"h", "e", "l", "p">>
CmdInfo == <<"i", "n", "f", "o">>
CmdPause == <<"p", "a", "u", "s", "e">>
CmdResume == <<"r", "e", "s", "u", "m", "e">>
CmdFrequencies == <<"f", "r", "e", "q", "u", "e", "n", "c", "i", "e", "s">>
CmdData == <<"d", "a", "t", "a">>
CmdTrace == <<"t", "r", "a", "c", "e">>
CmdSweep == <<"s", "w", "e", "e", "p">>
CmdPower == <<"p", "o", "w", "e", "r">>

\* "data N"
DataCmd(n) == CmdData \o <<SP>> \o FormatInt(n)

\* the get commands of the Instrument.measurement properties and of the
\* sweep control
MeasurementCmds ==
    {CmdHelp, CmdInfo, CmdPause, CmdResume, CmdFrequencies, CmdData, CmdTrace,
     CmdSweep}

\* 'power %d' % v
PowerValues_wide == {-1, 0, 1, 2, 3, 4, 5}

PowerValues == {-1, 0, 1, 2, 3}

PowerCmd(v) == CmdPower \o <<SP>> \o FormatInt(v)

\* 'sweep %i %i %i' % (start, stop, points)
SweepCmd(t) ==
    CmdSweep \o <<SP>> \o FormatInt(t[1]) \o <<SP>> \o FormatInt(t[2])
             \o <<SP>> \o FormatInt(t[3])

\* get_cals: the data commands and the keys, in the order of the source
CalCmds_swapped == <<DataCmd(2), DataCmd(4), DataCmd(3), DataCmd(5), DataCmd(6)>>

CalCmds == <<DataCmd(2), DataCmd(3), DataCmd(4), DataCmd(5), DataCmd(6)>>
CalKeys == <<"load", "open", "short", "thru", "isoln">>

----------------------------------------------------------------------------
(* The device shell: it echoes the command line, sends its reply lines,    *)
(* each ended by "\r\n", and then the prompt. A reply is                   *)
(* [parts, done]: parts is a sequence of line sequences with a prompt      *)
(* between two parts (multi-part output); done is FALSE when the device    *)
(* stops before the final prompt.                                          *)

RECURSIVE RenderLines(_)
RenderLines(lines) ==
    IF lines = <<>> THEN <<>>
    ELSE lines[1] \o echo_termination \o RenderLines(Tail(lines))

RECURSIVE RenderParts(_)
RenderParts(parts) ==
    IF parts = <<>> THEN <<>>
    ELSE IF Len(parts) = 1 THEN RenderLines(parts[1])
    ELSE RenderLines(parts[1]) \o PromptMarker \o RenderParts(Tail(parts))

DeviceOutput(command, reply) ==
    command \o echo_termination \o RenderParts(reply.parts)
            \o (IF reply.done THEN PromptMarker ELSE <<>>)

Line12 == <<"1", SP, "2">>
Line34 == <<"3", SP, "4">>
Line3 == <<"3">>
Line5 == <<"5">>
LineA == <<"a">>

ReplyNone == [parts |-> <<<<>>>>, done |-> TRUE]
ReplyOne == [parts |-> <<<<Line5>>>>, done |-> TRUE]
ReplyPair == [parts |-> <<<<Line12>>>>, done |-> TRUE]
ReplyThree == [parts |-> <<<<Line12, Line3>>>>, done |-> TRUE]
ReplyTwoPairs == [parts |-> <<<<Line12, Line34>>>>, done |-> TRUE]
ReplyFive == [parts |-> <<<<Line12, Line34, Line5>>>>, done |-> TRUE]
ReplyText == [parts |-> <<<<LineA>>>>, done |-> TRUE]
ReplyMultiPart == [parts |-> <<<<Line12>>, <<Line34>>>>, done |-> TRUE]
ReplyHang == [parts |-> <<<<Line12>>>>, done |-> FALSE]

\* what the device may answer to a query, to a data query, to a setting,
\* inside get_cals
Replies == {ReplyNone, ReplyPair, ReplyText, ReplyMultiPart, ReplyHang}
DataReplies ==
    {ReplyNone, ReplyOne, ReplyPair, ReplyThree, ReplyTwoPairs, ReplyFive,
     ReplyText, ReplyMultiPart, ReplyHang}
SetReplies == {ReplyNone}
CalReplies == {ReplyPair, ReplyFive, ReplyMultiPart, ReplyHang}

----------------------------------------------------------------------------
(* SerialAdapter._read_bytes(-1, break_on_termchar=True): read up to and    *)
(* including the first read termination; TimeoutError when none arrives    *)

\* the index of the last byte of the first read termination in buf; 0: none
TermEnd(buf) ==
    LET i == FindFrom(buf, read_termination, 1)
    IN IF i = 0 THEN 0 ELSE i + Len(read_termination) - 1

_read_bytes_partial(buf) ==
    LET k == TermEnd(buf)
    IN IF k # 0
       THEN [kind |-> "ok", frame |-> SubSeq(buf, 1, k),
             rest |-> SubSeq(buf, k + 1, Len(buf))]
       ELSE [kind |-> "ok", frame |-> buf, rest |-> <<>>]

_read_bytes(buf) ==
    LET k == TermEnd(buf)
    IN IF k # 0
       THEN [kind |-> "ok", frame |-> SubSeq(buf, 1, k),
             rest |-> SubSeq(buf, k + 1, Len(buf))]
       ELSE [kind |-> "TimeoutError", frame |-> buf, rest |-> <<>>]

\* SerialAdapterWithEcho._read_echo on the receive buffer buf
_read_echo(buf) ==
    LET r == _read_bytes(buf)
        read == Segments(r.frame)
    IN IF r.kind = "ok"
       THEN [kind |-> "ok", val |-> StrJoin(SliceInterior(read), <<COMMA>>),
             echo |-> read[1], raw |-> r.frame, rest |-> r.rest]
       ELSE [kind |-> r.kind, val |-> <<>>, echo |-> <<>>, raw |-> r.frame,
             rest |-> r.rest]

----------------------------------------------------------------------------
(* NanoVNA.write and NanoVNA.ask *)

\* Instrument.write -> adapter.write: the command and the write termination
WriteBytes(command) == command \o write_termination

\* the channel after write(command): the device answers with reply
AfterWrite(command, reply) == rx \o DeviceOutput(command, reply)

\* write(command): the part of a step that is the write
write(command) ==
    /\ tx' = WriteBytes(command)
    /\ nwrites' = nwrites + 1
    /\ busy' = (rx # <<>>)
    /\ clean' = (rx = <<>>)

\* ask(command): write, then _read_echo; r is what _read_echo returns
AskResult(command, reply) == _read_echo(AfterWrite(command, reply))

ask(command, reply, r) ==
    /\ write(command)
    /\ dev' = reply
    /\ rx' = r.rest
    /\ raw' = r.raw
    /\ echo' = r.echo

Outcome(r) == [kind |-> r.kind, val |-> r.val]

\* _process_frequencies(ask(command)) and _process_data(ask(command)): an
\* exception of ask propagates
DecodedFrequencies(r) ==
    IF r.kind = "ok" THEN _process_frequencies(r.val) ELSE Outcome(r)

DecodedData(r) == IF r.kind = "ok" THEN _process_data(r.val) ELSE Outcome(r)

Idle ==
    /\ calIdx = 0
    /\ nwrites < MaxWrites
    /\ op.name \notin {"compose", "tokens", "chunks"}

----------------------------------------------------------------------------
(* The facade's operations *)

\* Instrument.measurement properties and the sweep control's getter:
\* ask(get_command)
Measure(command, reply) ==
    LET r == AskResult(command, reply)
    IN /\ Idle
       /\ ask(command, reply, r)
       /\ op' = [name |-> "ask", arg |-> command]
       /\ ret' = Outcome(r)
       /\ UNCHANGED <<calIdx, cals, calLog>>

get_frequencies(reply) ==
    LET r == AskResult(CmdFrequencies, reply)
    IN /\ Idle
       /\ ask(CmdFrequencies, reply, r)
       /\ op' = [name |-> "get_frequencies", arg |-> CmdFrequencies]
       /\ ret' = DecodedFrequencies(r)
       /\ UNCHANGED <<calIdx, cals, calLog>>

get_S11_data(reply) ==
    LET r == AskResult(DataCmd(0), reply)
    IN /\ Idle
       /\ ask(DataCmd(0), reply, r)
       /\ op' = [name |-> "get_S11_data", arg |-> DataCmd(0)]
       /\ ret' = DecodedData(r)
       /\ UNCHANGED <<calIdx, cals, calLog>>

get_S21_data(reply) ==
    LET r == AskResult(DataCmd(1), reply)
    IN /\ Idle
       /\ ask(DataCmd(1), reply, r)
       /\ op' = [name |-> "get_S21_data", arg |-> DataCmd(1)]
       /\ ret' = DecodedData(r)
       /\ UNCHANGED <<calIdx, cals, calLog>>

\* validators.strict_discrete_set
strict_discrete_set(value, values) == value \in values

\* power = v: Instrument.setting validates, then writes 'power %d' % v
SetPower(v, reply) ==
    /\ Idle
    /\ op' = [name |-> "power", arg |-> v]
    /\ IF strict_discrete_set(v, PowerValues)
       THEN /\ write(PowerCmd(v))
            /\ rx' = AfterWrite(PowerCmd(v), reply)
            /\ dev' = reply
            /\ ret' = [kind |-> "ok", val |-> <<>>]
       ELSE /\ ret' = [kind |-> "ValueError", val |-> <<>>]
            /\ clean' = (rx = <<>>)
            /\ UNCHANGED <<rx, tx, nwrites, busy, dev>>
    /\ UNCHANGED <<raw, echo, calIdx, cals, calLog>>

PowerInputs == (0 - 2)..5

SweepInputs == {<<1, 9, 2>>, <<13, 16, 101>>}

\* sweep = (start, stop, points): Instrument.control writes the set command
SetSweep(t, reply) ==
    /\ Idle
    /\ op' = [name |-> "sweep", arg |-> t]
    /\ write(SweepCmd(t))
    /\ rx' = AfterWrite(SweepCmd(t), reply)
    /\ dev' = reply
    /\ ret' = [kind |-> "ok", val |-> <<>>]
    /\ UNCHANGED <<raw, echo, calIdx, cals, calLog>>

\* get_cals is entered
GetCalsCall ==
    /\ Idle
    /\ op' = [name |-> "get_cals", arg |-> <<>>]
    /\ ret' = [kind |-> "none", val |-> <<>>]
    /\ calIdx' = 1
    /\ cals' = <<>>
    /\ calLog' = <<>>
    /\ clean' = (rx = <<>>)
    /\ UNCHANGED <<rx, tx, nwrites, raw, echo, busy, dev>>

CalsMap(values) == [i \in 1..Len(CalKeys) |-> <<CalKeys[i], values[i]>>]

\* the calIdx-th line of get_cals: _process_data(ask("data N")); an
\* exception leaves get_cals, the fifth value returns the map
GetCalsStep(reply) ==
    /\ calIdx \in 1..Len(CalCmds)
    /\ LET command == CalCmds[calIdx]
           r == AskResult(command, reply)
           d == DecodedData(r)
       IN /\ ask(command, reply, r)
          /\ calLog' = calLog \o <<[ev |-> "write", cmd |-> command],
                                  [ev |-> "read", cmd |-> command]>>
          /\ IF d.kind # "ok"
             THEN /\ ret' = d
                  /\ cals' = <<>>
                  /\ calIdx' = 0
             ELSE /\ cals' = Append(cals, d.val)
                  /\ IF calIdx = Len(CalCmds)
                     THEN /\ ret' = [kind |-> "ok", val |-> CalsMap(cals')]
                          /\ calIdx' = 0
                     ELSE /\ ret' = ret
                          /\ calIdx' = calIdx + 1
    /\ UNCHANGED op

Init ==
    /\ rx = <<>>
    /\ tx = <<>>
    /\ nwrites = 0
    /\ raw = <<>>
    /\ echo = <<>>
    /\ ret = [kind |-> "none", val |-> <<>>]
    /\ op = [name |-> "init", arg |-> <<>>]
    /\ clean = TRUE
    /\ busy = FALSE
    /\ calIdx = 0
    /\ cals = <<>>
    /\ calLog = <<>>
    /\ dev = ReplyNone

\* one call of the facade, the device answering from the given sets
NextOver(replies, dataReplies, calReplies) ==
    \/ \E c \in MeasurementCmds, r \in replies : Measure(c, r)
    \/ \E r \in replies : get_frequencies(r)
    \/ \E r \in dataReplies : get_S11_data(r)
    \/ \E r \in dataReplies : get_S21_data(r)
    \/ \E v \in PowerInputs, r \in SetReplies : SetPower(v, r)
    \/ \E t \in SweepInputs, r \in SetReplies : SetSweep(t, r)
    \/ GetCalsCall
    \/ \E r \in calReplies : GetCalsStep(r)

Next == NextOver(Replies, DataReplies, CalReplies)

Spec == Init /\ [][Next]_vars

\* the same facade on a device that answers every command with exactly one
\* complete frame: the reply lines, then one prompt
OneFrame(replies) == {r \in replies : r.done /\ Len(r.parts) = 1}

NextOneFrame ==
    NextOver(OneFrame(Replies), OneFrame(DataReplies), OneFrame(CalReplies))

SpecOneFrame == Init /\ [][NextOneFrame]_vars

----------------------------------------------------------------------------
(* ask(command) on well-formed frames: the device composes up to MaxLines  *)
(* reply lines, none containing "\r\n" or the prompt marker, and the       *)
(* caller asks                                                             *)

Echoes == {<<>>, <<"a">>, CmdInfo}

LineSet ==
    {<<>>, <<"a">>, Line12, <<"c">>, <<"h", ">", SP>>, <<COMMA>>, <<CR>>, <<LF>>}

InitLines ==
    /\ rx = <<>>
    /\ tx = <<>>
    /\ nwrites = 0
    /\ raw = <<>>
    /\ echo = <<>>
    /\ ret = [kind |-> "none", val |-> <<>>]
    /\ \E e \in Echoes : op = [name |-> "compose", arg |-> e]
    /\ clean = TRUE
    /\ busy = FALSE
    /\ calIdx = 0
    /\ cals = <<>>
    /\ calLog = <<>>
    /\ dev = ReplyNone

DeviceLine(l) ==
    /\ op.name = "compose"
    /\ Len(dev.parts[1]) < MaxLines
    /\ dev' = [dev EXCEPT !.parts[1] = Append(@, l)]
    /\ UNCHANGED <<rx, tx, nwrites, raw, echo, ret, op, clean, busy,
                   calIdx, cals, calLog>>

AskComposed ==
    LET r == AskResult(op.arg, dev)
    IN /\ op.name = "compose"
       /\ ask(op.arg, dev, r)
       /\ op' = [name |-> "ask", arg |-> op.arg]
       /\ ret' = Outcome(r)
       /\ UNCHANGED <<calIdx, cals, calLog>>

NextLines ==
    \/ \E l \in LineSet : DeviceLine(l)
    \/ AskComposed

SpecLines == InitLines /\ [][NextLines]_vars

----------------------------------------------------------------------------
(* read() on arbitrary bytes: the device sends up to MaxChunks chunks       *)

Chunks ==
    {<<"a">>, <<"c">>, <<"h", ">", SP>>, PromptMarker, echo_termination,
     read_termination}

InitRaw ==
    /\ rx = <<>>
    /\ tx = <<>>
    /\ nwrites = 0
    /\ raw = <<>>
    /\ echo = <<>>
    /\ ret = [kind |-> "none", val |-> <<>>]
    /\ op = [name |-> "chunks", arg |-> 0]
    /\ clean = TRUE
    /\ busy = FALSE
    /\ calIdx = 0
    /\ cals = <<>>
    /\ calLog = <<>>
    /\ dev = ReplyNone

DeviceSends(chunk) ==
    /\ op.name = "chunks"
    /\ op.arg < MaxChunks
    /\ rx' = rx \o chunk
    /\ op' = [op EXCEPT !.arg = @ + 1]
    /\ UNCHANGED <<tx, nwrites, raw, echo, ret, clean, busy,
                   calIdx, cals, calLog, dev>>

\* NanoVNA.read
read ==
    LET r == _read_echo(rx)
    IN /\ op.name = "chunks"
       /\ op' = [name |-> "read", arg |-> op.arg]
       /\ rx' = r.rest
       /\ raw' = r.raw
       /\ echo' = r.echo
       /\ ret' = Outcome(r)
       /\ UNCHANGED <<tx, nwrites, clean, busy, calIdx, cals, calLog, dev>>

\* lines 44-48 of _read_echo applied to the bytes as they are
ScrubDecoded ==
    /\ op.name = "chunks"
    /\ op' = [name |-> "scrub", arg |-> op.arg]
    /\ rx' = <<>>
    /\ raw' = rx
    /\ echo' = Segments(rx)[1]
    /\ ret' = [kind |-> "ok", val |-> ScrubEcho(rx)]
    /\ UNCHANGED <<tx, nwrites, clean, busy, calIdx, cals, calLog, dev>>

NextRaw ==
    \/ \E c \in Chunks : DeviceSends(c)
    \/ read
    \/ ScrubDecoded

SpecRaw == InitRaw /\ [][NextRaw]_vars

----------------------------------------------------------------------------
(* Properties *)

AskOps == {"ask", "get_frequencies", "get_S11_data", "get_S21_data"}

\* C1: for a frame  echo \r\n line_1 \r\n ... line_n \r\n ch>   (n >= 0, no
\* line containing "\r\n" or the prompt marker) the ask returns the n lines in
\* order joined by ",", having dropped exactly the echo and the trailing
\* empty segment, and leaves nothing unread.
C1_InteriorLinesJoined ==
    op.name = "ask" =>
        /\ raw = op.arg \o echo_termination \o RenderLines(dev.parts[1])
                        \o PromptMarker
        /\ ret = [kind |-> "ok", val |-> StrJoin(dev.parts[1], <<COMMA>>)]
        /\ echo = op.arg
        /\ rx = <<>>

C1_Witness ==
    /\ op.name = "ask"
    /\ op.arg = CmdInfo
    /\ dev.parts[1] = <<Line12, <<"a">>>>
    /\ ret.val = <<"1", SP, "2", COMMA, "a">>

\* C4 (as claimed): when the text yields fewer than 2 segments after the
\* marker is removed and the text split on "\r\n", the scrubbing fails with
\* a FramingError instead of returning a reply.
C4_FewSegmentsFail ==
    (op.name = "scrub" /\ Len(Segments(raw)) < 2) => ret.kind = "FramingError"

\* a removed occurrence of the marker in text directly follows 'c', 'h' or '>'
MarkerAfterPrefixChar(text) ==
    \E k \in 2..Len(text) :
        /\ MatchAt(text, PromptMarker, k)
        /\ text[k - 1] \in {"c", "h", ">"}

\* C9 (as claimed): the string _read_echo returns never contains the prompt
\* marker.
C9_NoMarkerReturned ==
    (op.name \in {"read", "scrub"} /\ ret.kind = "ok")
        => ~Contains(ret.val, PromptMarker)

\* C9 (amended): the returned string contains the prompt marker only when
\* an occurrence removed from the frame directly followed 'c', 'h' or '>',
\* and then the marker lies inside one interior segment: the join with ","
\* creates none.
C9_MarkerOnlyFromNesting ==
    (op.name \in {"read", "scrub"} /\ ret.kind = "ok"
        /\ Contains(ret.val, PromptMarker))
        => /\ MarkerAfterPrefixChar(raw)
           /\ \E i \in 2..(Len(Segments(raw)) - 1) :
                 Contains(Segments(raw)[i], PromptMarker)

C9_Witness ==
    /\ op.name = "read"
    /\ ret.kind = "ok"
    /\ Contains(ret.val, PromptMarker)
    /\ MarkerAfterPrefixChar(raw)

C2_AskDropsOwnEcho ==
    (op.name \in AskOps /\ ret.kind # "TimeoutError") => echo = op.arg

\* C3 (as claimed): no write happens while bytes of an earlier command's
\* reply are still unread.
C3_NoWriteWhileUnread == ~busy

\* C10 (as claimed): after an ask that started from an empty receive buffer
\* returns, the receive buffer is empty again.
C10_AskLeavesNothingUnread ==
    (op.name \in AskOps /\ clean /\ ret.kind # "TimeoutError") => rx = <<>>

\* the numeric tokens of the reply lines the device sent
RECURSIVE LineTokens(_)
LineTokens(lines) ==
    IF lines = <<>> THEN <<>>
    ELSE StrSplit(lines[1], <<SP>>) \o LineTokens(Tail(lines))

\* C7 (as claimed): decoding S-parameter data fails when the reply has an
\* odd number of numeric tokens.
C7_OddTokenCountFails ==
    (/\ op.name \in {"get_S11_data", "get_S21_data"}
     /\ clean
     /\ dev.done
     /\ Len(dev.parts) = 1
     /\ Len(LineTokens(dev.parts[1])) % 2 = 1
     /\ \A i \in 1..Len(LineTokens(dev.parts[1])) :
           IsNumeric(LineTokens(dev.parts[1])[i]))
        => ret.kind = "ValueError"

\* the bytes of the write that sets power to v
PowerBytes(v) ==
    <<"p", "o", "w", "e", "r", SP>>
        \o (CASE v = -1 -> <<"-", "1">>
              [] v = 0 -> <<"0">>
              [] v = 1 -> <<"1">>
              [] v = 2 -> <<"2">>
              [] v = 3 -> <<"3">>)
        \o <<CR>>

\* C5: setting power to a value outside {-1, 0, 1, 2, 3} fails before any
\* write (nothing is sent, the channel is unchanged); setting it to a value
\* v of the set makes exactly one write, of 'power v'.
C5_PowerValidated ==
    [][op'.name = "power" =>
        IF op'.arg \in {-1, 0, 1, 2, 3}
        THEN /\ ret'.kind = "ok"
             /\ nwrites' = nwrites + 1
             /\ tx' = PowerBytes(op'.arg)
        ELSE /\ ret'.kind = "ValueError"
             /\ UNCHANGED <<rx, tx, nwrites, busy>>]_vars

C5_Witness ==
    /\ op.name = "power"
    /\ op.arg = 5
    /\ ret.kind = "ValueError"
    /\ nwrites = 1
    /\ tx = PowerBytes(3)

\* the k-th ask of get_cals as it is logged: write "data k+1", then its read
CalAsk(k) ==
    <<[ev |-> "write", cmd |-> <<"d", "a", "t", "a", SP, Digits[k + 2]>>],
      [ev |-> "read", cmd |-> <<"d", "a", "t", "a", SP, Digits[k + 2]>>]>>

\* the value _process_data gives for the frame read last
LastDecoded == _process_data(ScrubEcho(raw))

\* C6, the state part: the asks of get_cals are 'data 2' .. 'data 6' in this
\* order, each write followed by its read; while it runs every ask so far
\* has decoded; it returns the map load, open, short, thru, isoln of the five
\* decoded replies after exactly five asks; when it fails no map is returned
\* and the ask logged last is the one that failed.
C6_State ==
    /\ Len(calLog) % 2 = 0
    /\ Len(calLog) <= 10
    /\ \A k \in 1..(Len(calLog) \div 2) :
          SubSeq(calLog, 2 * k - 1, 2 * k) = CalAsk(k)
    /\ calIdx \in 0..5
    /\ calIdx > 0 =>
          /\ op.name = "get_cals"
          /\ ret.kind = "none"
          /\ Len(calLog) = 2 * (calIdx - 1)
          /\ Len(cals) = calIdx - 1
    /\ (op.name = "get_cals" /\ calIdx = 0 /\ ret.kind = "ok") =>
          /\ Len(calLog) = 10
          /\ Len(cals) = 5
          /\ cals[5] = LastDecoded.val
          /\ ret.val = <<<<"load", cals[1]>>, <<"open", cals[2]>>,
                         <<"short", cals[3]>>, <<"thru", cals[4]>>,
                         <<"isoln", cals[5]>>>>
    /\ (op.name = "get_cals" /\ calIdx = 0 /\ ret.kind # "ok") =>
          /\ ret.val = <<>>
          /\ Len(calLog) \in {2, 4, 6, 8, 10}
          /\ IF ret.kind = "TimeoutError"
             THEN ~Contains(raw, read_termination)
             ELSE ret.kind = "ValueError" /\ LastDecoded.kind = "ValueError"

\* C6, the step part: an ask of get_cals that fails ends the call at once,
\* one that decodes is kept, and a call that has ended issues nothing more.
C6_Step ==
    /\ (calIdx > 0 /\ ret'.kind \notin {"ok", "none"}) => calIdx' = 0
    /\ (calIdx > 0 /\ calIdx' > 0) =>
          /\ calIdx' = calIdx + 1
          /\ Len(cals') = Len(cals) + 1
          /\ cals'[Len(cals')] = _process_data(ScrubEcho(raw')).val
          /\ _process_data(ScrubEcho(raw')).kind = "ok"
          /\ Contains(raw', read_termination)
    /\ (op.name = "get_cals" /\ calIdx = 0) =>
          (calLog' = calLog \/ (calLog' = <<>> /\ calIdx' = 1))

\* C6: get_cals issues exactly 5 asks, 'data 2' .. 'data 6' in order, each
\* write followed by its read before the next write, and maps the decoded
\* replies to load, open, short, thru, isoln; if the k-th ask or its
\* decoding fails no map is returned and the later asks are never issued.
C6_GetCals == [](C6_State) /\ [][C6_Step]_vars

C6_Witness ==
    /\ op.name = "get_cals"
    /\ calIdx = 0
    /\ ret.kind = "ok"
    /\ Len(calLog) = 10

C6_FailureWitness ==
    /\ op.name = "get_cals"
    /\ calIdx = 0
    /\ ret.kind = "ValueError"
    /\ Len(calLog) = 6

====
